---- MODULE Spec2Model ----
(***************************************************************************)
(* Drag-and-drop mutation resolution of gg: BinaryMutator.canDrag,         *)
(* BinaryMutator.canDrop and BinaryMutator.doDrop, driven by one pointer   *)
(* gesture (pointer-down on `from`, hover over `to`, release); and the     *)
(* application shell that loads the repository and the selected revision   *)
(* (loadRepo, loadChange and the load timer of App.svelte).                *)
(***************************************************************************)
EXTENDS Integers, Sequences, FiniteSets, TLC

\* the gesture
VARIABLES from, to, alias, pc, drag, drop, requests, log

\* the application shell
VARIABLES repoConfigEvent, repoStatusEvent, revisionSelectEvent, selection,
          loadTimeout, timer, mounted, calls, inflight

gestureVars == <<from, to, alias, pc, drag, drop, requests, log>>

shellVars ==
    <<repoConfigEvent, repoStatusEvent, revisionSelectEvent, selection,
      loadTimeout, timer, mounted, calls, inflight>>

vars == <<gestureVars, shellVars>>

(***************************************************************************)
(* Bounds of the input space.                                              *)
(***************************************************************************)
\* commit identities are the hex values 1..NumCommits
NumCommits == 3
\* longest parent list of a header
MaxParents == 2
\* calls of loadChange started in one run
MaxCalls == 2
\* queries one call of loadChange may send before the model stops following it
MaxQueries == 3

CommitIds == 1..NumCommits
ChangeIds == {"k", "m"}
Paths == {"src/a.txt", "src/b.txt"}
BranchNames == {"main", "dev"}

\* stands for undefined, what parent_ids[0] of an empty list yields; it is no
\* commit identity
Undefined == 0
\* $currentTarget before the pointer is over a zone
Null == [type |-> "null"]

SeqsUpTo(S, n) == UNION {[1..k -> S] : k \in 0..n}

DupFree(s) == \A i, j \in 1..Len(s) : i # j => s[i] # s[j]

ParentLists == {s \in SeqsUpTo(CommitIds, MaxParents) : DupFree(s)}

(***************************************************************************)
(* Operand model: RevId, RevHeader, RefName, Operand.                      *)
(***************************************************************************)
RevIds == [change : ChangeIds, commit : CommitIds]

Elems(s) == {s[i] : i \in 1..Len(s)}

\* a revision is not its own parent
Headers ==
    {h \in [id : RevIds, is_immutable : BOOLEAN, parent_ids : ParentLists] :
        h.id.commit \notin Elems(h.parent_ids)}

\* the header of a parent edge or of a branch, of which only the id is read
BareHeaders == {h \in Headers : ~h.is_immutable /\ h.parent_ids = <<>>}

RefNames ==
    [type : {"LocalBranch"}, branch_name : BranchNames]
    \cup [type : {"RemoteBranch"}, branch_name : BranchNames, remote_name : {"origin"}]

\* parent edges: the header is one of the parents of the child
Edges ==
    {e \in [type : {"Parent"}, header : BareHeaders, child : Headers] :
        e.header.id.commit \in Elems(e.child.parent_ids)}

\* parent edges of revisions with one more parent than MaxParents, over one
\* more commit: the parents that stay after one is removed are a list of two
\* or more
WideCommitIds == 1..(NumCommits + 1)

WideParentLists == {s \in SeqsUpTo(WideCommitIds, MaxParents + 1) : DupFree(s)}

WideHeaders ==
    {h \in [id : [change : ChangeIds, commit : WideCommitIds],
            is_immutable : BOOLEAN, parent_ids : WideParentLists] :
        h.id.commit \notin Elems(h.parent_ids)}

WideEdges ==
    UNION {{[type |-> "Parent",
             header |-> [id |-> [change |-> k, commit |-> c.parent_ids[i]],
                         is_immutable |-> FALSE, parent_ids |-> <<>>],
             child |-> c] : k \in ChangeIds, i \in 1..Len(c.parent_ids)}
           : c \in WideHeaders}

Operand ==
    {[type |-> "Repository"]}
    \cup [type : {"Revision"}, header : Headers]
    \cup [type : {"Merge"}, header : Headers]
    \cup Edges
    \cup [type : {"Change"}, header : Headers, path : Paths]
    \cup [type : {"Branch"}, header : BareHeaders, name : RefNames]

\* the operands of the model, enumerated once
Operands == {o : o \in Operand}

HasHeader(o) == o.type \in {"Revision", "Merge", "Parent", "Change", "Branch"}

\* JavaScript == on objects is identity of reference, which the values do not
\* decide: alias.operand says that `to` is the very object `from`, alias.child
\* that to.child is the very object from.header.
Aliases == [operand : BOOLEAN, child : BOOLEAN]

\* one object has one value
AliasOk(f, t, a) ==
    /\ a.operand => t = f
    /\ a.child => (t.type = "Parent" /\ HasHeader(f) /\ t.child = f.header)

(***************************************************************************)
(* Eligibility resolver.                                                   *)
(***************************************************************************)
Yes(hint) == [type |-> "yes", hint |-> hint]

Maybe(hint) == [type |-> "maybe", hint |-> hint]

No == [type |-> "no"]

\* canDrag with the two checks of a parent edge in the other order
CanDrag_SingleParentFirst(f) ==
    IF f.type \in {"Revision", "Change"} /\ f.header.is_immutable
    THEN Maybe("(revision is immutable)")
    ELSE IF f.type = "Parent" /\ Len(f.child.parent_ids) = 1
    THEN Maybe("(child has only one parent)")
    ELSE IF f.type = "Parent" /\ f.child.is_immutable
    THEN Maybe("(child is immutable)")
    ELSE IF f.type = "Branch" /\ f.name.type = "RemoteBranch"
    THEN Maybe("(branch is remote)")
    ELSE IF f.type = "Revision"
    THEN Yes(<<"Rebasing revision ", f.header.id.change>>)
    ELSE IF f.type = "Parent"
    THEN Yes(<<"Removing parent from revision ", f.child.id.change>>)
    ELSE IF f.type = "Change"
    THEN Yes(<<"Squashing changes at " \o f.path>>)
    ELSE IF f.type = "Branch"
    THEN Yes(<<"Moving branch " \o f.name.branch_name>>)
    ELSE No

CanDrag(f) ==
    IF f.type \in {"Revision", "Change"} /\ f.header.is_immutable
    THEN Maybe("(revision is immutable)")
    ELSE IF f.type = "Parent" /\ f.child.is_immutable
    THEN Maybe("(child is immutable)")
    ELSE IF f.type = "Parent" /\ Len(f.child.parent_ids) = 1
    THEN Maybe("(child has only one parent)")
    ELSE IF f.type = "Branch" /\ f.name.type = "RemoteBranch"
    THEN Maybe("(branch is remote)")
    ELSE IF f.type = "Revision"
    THEN Yes(<<"Rebasing revision ", f.header.id.change>>)
    ELSE IF f.type = "Parent"
    THEN Yes(<<"Removing parent from revision ", f.child.id.change>>)
    ELSE IF f.type = "Change"
    THEN Yes(<<"Squashing changes at " \o f.path>>)
    ELSE IF f.type = "Branch"
    THEN Yes(<<"Moving branch " \o f.name.branch_name>>)
    ELSE No

\* parent_ids[0]
First(s) == IF Len(s) > 0 THEN s[1] ELSE Undefined

\* the prohibition without the exception for a revision dropped on a merge
DropGate_NoException(f, t) == CanDrag(f).type # "yes"

\* the generic prohibition on what cannot be dragged, which spares a revision
\* dropped on a merge
DropGate(f, t) ==
    CanDrag(f).type # "yes" /\ ~(f.type = "Revision" /\ t.type = "Merge")

\* the row without the check that the child is the dragged revision
RevisionToParent_NoSelfCheck(f, t, a) ==
    IF t.child.is_immutable
    THEN Maybe("(can't insert before an immutable revision)")
    ELSE Yes(<<"Inserting revision ", f.header.id.change, " before ", t.child.id.change>>)

RevisionToParent(f, t, a) ==
    IF a.child
    THEN No
    ELSE IF t.child.is_immutable
    THEN Maybe("(can't insert before an immutable revision)")
    ELSE Yes(<<"Inserting revision ", f.header.id.change, " before ", t.child.id.change>>)

RevisionToMerge(f, t) ==
    IF t.header.id.change = f.header.id.change
    THEN No
    ELSE Yes(<<"Adding parent to revision ", t.header.id.change>>)

ChangeToRevision(f, t) ==
    IF t.header.id.change = f.header.id.change
    THEN No
    ELSE IF t.header.is_immutable
    THEN Maybe("(revision is immutable)")
    ELSE Yes(<<"Squashing changes at " \o f.path \o " into ", t.header.id.change>>)

\* the row accepting any revision that has a parent
ChangeToRepository_AtLeastOne(f) ==
    IF Len(f.header.parent_ids) >= 1
    THEN Yes(<<"Restoring changes at " \o f.path \o " from parent ",
               First(f.header.parent_ids)>>)
    ELSE Maybe("Can't restore: revision has multiple parents.")

\* the row rejecting only a revision with several parents
ChangeToRepository_AtMostOne(f) ==
    IF Len(f.header.parent_ids) <= 1
    THEN Yes(<<"Restoring changes at " \o f.path \o " from parent ",
               First(f.header.parent_ids)>>)
    ELSE Maybe("Can't restore: revision has multiple parents.")

ChangeToRepository(f) ==
    IF Len(f.header.parent_ids) = 1
    THEN Yes(<<"Restoring changes at " \o f.path \o " from parent ",
               First(f.header.parent_ids)>>)
    ELSE Maybe("Can't restore: revision has multiple parents.")

\* the row without the comparison of the names
BranchToBranch_AnyName(f, t) ==
    Yes(<<"Resetting branch " \o f.name.branch_name \o " to remote">>)

BranchToBranch(f, t) ==
    IF f.name.branch_name = t.name.branch_name
    THEN Yes(<<"Resetting branch " \o f.name.branch_name \o " to remote">>)
    ELSE No

\* the rows of canDrop below its generic prohibitions
DropTable(f, t, a) ==
    IF f.type = "Revision" /\ t.type = "Revision"
    THEN Yes(<<"Rebasing revision ", f.header.id.change, " onto ", t.header.id.change>>)
    ELSE IF f.type = "Revision" /\ t.type = "Parent"
    THEN RevisionToParent(f, t, a)
    ELSE IF f.type = "Revision" /\ t.type = "Merge"
    THEN RevisionToMerge(f, t)
    ELSE IF f.type = "Revision" /\ t.type = "Repository"
    THEN Yes(<<"Abandoning commit ", f.header.id.commit>>)
    ELSE IF f.type = "Parent" /\ t.type = "Repository"
    THEN Yes(<<"Removing parent from revision ", f.child.id.change>>)
    ELSE IF f.type = "Change" /\ t.type = "Revision"
    THEN ChangeToRevision(f, t)
    ELSE IF f.type = "Change" /\ t.type = "Repository"
    THEN ChangeToRepository(f)
    ELSE IF f.type = "Branch" /\ t.type = "Revision"
    THEN Yes(<<"Moving branch " \o f.name.branch_name \o " to ", t.header.id.change>>)
    ELSE IF f.type = "Branch" /\ t.type = "Branch"
    THEN BranchToBranch(f, t)
    ELSE No

\* canDrop with the row of a parent edge accepting every target
CanDrop_ParentAnywhere(f, t, a) ==
    IF DropGate(f, t)
    THEN No
    ELSE IF a.operand
    THEN No
    ELSE IF f.type = "Parent"
    THEN Yes(<<"Removing parent from revision ", f.child.id.change>>)
    ELSE DropTable(f, t, a)

CanDrop(f, t, a) ==
    IF DropGate(f, t)
    THEN No
    ELSE IF a.operand
    THEN No
    ELSE DropTable(f, t, a)

(***************************************************************************)
(* Mutation dispatcher.                                                    *)
(***************************************************************************)
\* mutate<T>(command, request): one request to the backend
Mutate(command, request) ==
    [requests |-> <<[command |-> command, request |-> request]>>, log |-> <<>>]

\* no row matched
Unknown == [requests |-> <<>>, log |-> <<"error: unknown validated mutation">>]

Reverse(s) == [i \in 1..Len(s) |-> s[Len(s) + 1 - i]]

\* the filter collecting the ids that stay from the last to the first
Without_Reversed(s, commit) == Reverse(SelectSeq(s, LAMBDA id : id # commit))

\* ids of s whose hex is not that of commit, in order
Without(s, commit) == SelectSeq(s, LAMBDA id : id # commit)

\* the dispatcher of a revision putting the new parent of a merge first
DropRevision_NewParentFirst(f, t) ==
    IF t.type = "Revision"
    THEN Mutate("move_revision", [id |-> f.header.id, parent_ids |-> <<t.header.id>>])
    ELSE IF t.type = "Parent"
    THEN Mutate("insert_revision",
            [id |-> f.header.id, after_id |-> t.header.id, before_id |-> t.child.id])
    ELSE IF t.type = "Merge"
    THEN Mutate("move_source",
            [id |-> t.header.id,
             parent_ids |-> <<f.header.id.commit>> \o t.header.parent_ids])
    ELSE Mutate("abandon_revisions", [ids |-> <<f.header.id.commit>>])

DropRevision(f, t) ==
    IF t.type = "Revision"
    THEN Mutate("move_revision", [id |-> f.header.id, parent_ids |-> <<t.header.id>>])
    ELSE IF t.type = "Parent"
    THEN Mutate("insert_revision",
            [id |-> f.header.id, after_id |-> t.header.id, before_id |-> t.child.id])
    ELSE IF t.type = "Merge"
    THEN Mutate("move_source",
            [id |-> t.header.id,
             parent_ids |-> Append(t.header.parent_ids, f.header.id.commit)])
    ELSE Mutate("abandon_revisions", [ids |-> <<f.header.id.commit>>])

DropParent(f) ==
    Mutate("move_source",
        [id |-> f.child.id,
         parent_ids |-> Without(f.child.parent_ids, f.header.id.commit)])

DropChange(f, t) ==
    IF t.type = "Revision"
    THEN Mutate("move_changes",
            [from_id |-> f.header.id, to_id |-> t.header.id.commit, paths |-> <<f.path>>])
    ELSE Mutate("copy_changes",
            [from_id |-> First(f.header.parent_ids), to_id |-> f.header.id,
             paths |-> <<f.path>>])

\* the dispatcher of a branch without the row for a branch target
DropBranch_RevisionOnly(f, t) ==
    IF t.type = "Revision"
    THEN Mutate("move_branch", [to_id |-> t.header.id, name |-> f.name])
    ELSE Unknown

\* the dispatcher of a branch sending the name of the target
DropBranch_TargetName(f, t) ==
    IF t.type = "Revision"
    THEN Mutate("move_branch", [to_id |-> t.header.id, name |-> f.name])
    ELSE IF t.type = "Branch"
    THEN Mutate("move_branch", [to_id |-> t.header.id, name |-> t.name])
    ELSE Unknown

DropBranch(f, t) ==
    IF t.type = "Revision"
    THEN Mutate("move_branch", [to_id |-> t.header.id, name |-> f.name])
    ELSE IF t.type = "Branch"
    THEN Mutate("move_branch", [to_id |-> t.header.id, name |-> f.name])
    ELSE Unknown

\* the dispatcher whose rows do not return: the closing log runs after every
\* call
DoDrop_NoReturn(f, t) ==
    LET row == IF f.type = "Revision"
                  /\ t.type \in {"Revision", "Parent", "Merge", "Repository"}
               THEN DropRevision(f, t)
               ELSE IF f.type = "Parent" /\ t.type = "Repository"
               THEN DropParent(f)
               ELSE IF f.type = "Change" /\ t.type \in {"Revision", "Repository"}
               THEN DropChange(f, t)
               ELSE IF f.type = "Branch" /\ t.type \in {"Revision", "Branch"}
               THEN DropBranch(f, t)
               ELSE [requests |-> <<>>, log |-> <<>>]
    IN [requests |-> row.requests, log |-> row.log \o Unknown.log]

\* what one call of doDrop sends and logs
DoDrop(f, t) ==
    IF f.type = "Revision" /\ t.type \in {"Revision", "Parent", "Merge", "Repository"}
    THEN DropRevision(f, t)
    ELSE IF f.type = "Parent" /\ t.type = "Repository"
    THEN DropParent(f)
    ELSE IF f.type = "Change" /\ t.type \in {"Revision", "Repository"}
    THEN DropChange(f, t)
    ELSE IF f.type = "Branch"
    THEN DropBranch(f, t)
    ELSE Unknown

(***************************************************************************)
(* Application shell: stores, load timer, loadRepo, loadChange.            *)
(***************************************************************************)
\* the value of a store or of a local that has not been set
Unset == [type |-> "undefined"]

InitialConfig == [type |-> "Initial"]

TimeoutError == [type |-> "TimeoutError"]

\* RepoStatus, of which working_copy is read
Status(commit) == [working_copy |-> commit]

Workspace(commit) == [type |-> "Workspace", status |-> Status(commit)]

\* the configurations the backend sends with gg://repo/config
BackendConfigs == {Workspace(c) : c \in CommitIds} \cup {[type |-> "LoadError"]}

\* Query<RevResult>
Wait == [type |-> "wait"]

Detail(commit) == [type |-> "data", value |-> [type |-> "Detail", commit |-> commit]]

NotFound(id) == [type |-> "data", value |-> [type |-> "NotFound", id |-> id]]

IsNotFound(rev) == rev.type = "data" /\ rev.value.type = "NotFound"

QueryError == [type |-> "error"]

\* the ids of the revisions shown in the log, one per commit; loadChange reads
\* the commit of an id only
LogIds == {[change |-> "k", commit |-> c] : c \in CommitIds}

\* what query_revision may answer for id
Answers(id) == {Detail(id.commit), NotFound(id), QueryError}

\* the id loadChange falls back to
WorkingCopyId(status) == [change |-> "@", commit |-> status.working_copy]

\* clearTimeout on a timer in state t
ClearTimeout(t) == IF t = "pending" THEN "cleared" ELSE t

\* the state in which the shell is not followed
ShellIdle ==
    /\ repoConfigEvent = InitialConfig
    /\ repoStatusEvent = Unset
    /\ revisionSelectEvent = Unset
    /\ selection = Wait
    /\ loadTimeout = "undefined"
    /\ timer = "none"
    /\ mounted = FALSE
    /\ calls = <<>>
    /\ inflight = <<>>

\* the state in which no gesture is followed
GestureIdle ==
    /\ from = [type |-> "Repository"]
    /\ to = Null
    /\ alias = [operand |-> FALSE, child |-> FALSE]
    /\ pc = "idle"
    /\ drag = Null
    /\ drop = Null
    /\ requests = <<>>
    /\ log = <<>>

\* loadRepo that leaves the timer alone
LoadRepo_NoClear(config, t) ==
    /\ timer' = t
    /\ UNCHANGED loadTimeout
    /\ revisionSelectEvent' = Unset
    /\ repoStatusEvent' = IF config.type = "Workspace" THEN config.status ELSE repoStatusEvent

\* loadRepo(config), run by the reactive statement on $repoConfigEvent while
\* the timer is in state t; $revisionSelectEvent is undefined afterwards, so
\* the reactive statement on it starts no loadChange
LoadRepo(config, t) ==
    /\ IF loadTimeout = "timer"
       THEN timer' = ClearTimeout(t) /\ loadTimeout' = "null"
       ELSE timer' = t /\ UNCHANGED loadTimeout
    /\ revisionSelectEvent' = Unset
    /\ repoStatusEvent' = IF config.type = "Workspace" THEN config.status ELSE repoStatusEvent

\* the component after construction: the store holds what the backend has sent
\* so far, and the reactive statements have run once
InitShell ==
    /\ repoConfigEvent \in {InitialConfig} \cup BackendConfigs
    /\ repoStatusEvent =
         IF repoConfigEvent.type = "Workspace" THEN repoConfigEvent.status ELSE Unset
    /\ revisionSelectEvent = Unset
    /\ selection = Wait
    /\ loadTimeout = "undefined"
    /\ timer = "none"
    /\ mounted = FALSE
    /\ calls = <<>>
    /\ inflight = <<>>
    /\ GestureIdle

\* onMount
Mount ==
    /\ ~mounted
    /\ mounted' = TRUE
    /\ IF repoConfigEvent.type = "Initial"
       THEN loadTimeout' = "timer" /\ timer' = "pending"
       ELSE UNCHANGED <<loadTimeout, timer>>
    /\ UNCHANGED <<repoConfigEvent, repoStatusEvent, revisionSelectEvent, selection,
                   calls, inflight>>
    /\ UNCHANGED gestureVars

\* gg://repo/config arrives: the store is set and loadRepo runs
ConfigEvent ==
    /\ mounted
    /\ \E config \in BackendConfigs :
        /\ repoConfigEvent' = config
        /\ LoadRepo(config, timer)
    /\ UNCHANGED <<selection, mounted, calls, inflight>>
    /\ UNCHANGED gestureVars

\* the timer runs out: the store is set to TimeoutError and loadRepo runs
TimerFires ==
    /\ timer = "pending"
    /\ repoConfigEvent' = TimeoutError
    /\ LoadRepo(TimeoutError, "fired")
    /\ UNCHANGED <<selection, mounted, calls, inflight>>
    /\ UNCHANGED gestureVars

\* the test of loadChange with the comparison to the working copy left out
Retry_AnyNotFound(rev, id, status) == IsNotFound(rev)

\* the revision is gone and it is not the working copy
Retry(rev, id, status) ==
    /\ rev.type = "data"
    /\ rev.value.type = "NotFound"
    /\ status = Unset \/ id.commit # status.working_copy

\* a click on a revision of the log: the store is set and, a status being
\* known, loadChange starts and sends its query
Select ==
    /\ repoConfigEvent.type = "Workspace"
    /\ Len(calls) < MaxCalls
    /\ \E id \in LogIds :
        /\ revisionSelectEvent' = [id |-> id]
        /\ IF repoStatusEvent # Unset
           THEN /\ calls' = Append(calls, [id |-> id, queries |-> 1, pc |-> "query",
                                           rev |-> Unset])
                /\ inflight' = Append(inflight, Len(calls) + 1)
           ELSE UNCHANGED <<calls, inflight>>
    /\ UNCHANGED <<repoConfigEvent, repoStatusEvent, selection, loadTimeout, timer,
                   mounted>>
    /\ UNCHANGED gestureVars

\* the oldest pending query_revision is answered (the backend answers in the
\* order asked) and its loadChange runs on: it starts over with the working
\* copy, or assigns selection and ends
Respond ==
    /\ inflight # <<>>
    /\ LET c == Head(inflight)
       IN \E rev \in Answers(calls[c].id) :
            IF Retry(rev, calls[c].id, repoStatusEvent)
            THEN IF repoStatusEvent = Unset
                 THEN /\ calls' = [calls EXCEPT ![c].pc = "thrown", ![c].rev = rev]
                      /\ inflight' = Tail(inflight)
                      /\ UNCHANGED selection
                 ELSE /\ calls[c].queries < MaxQueries
                      /\ calls' = [calls EXCEPT
                                     ![c].id = WorkingCopyId(repoStatusEvent),
                                     ![c].queries = @ + 1,
                                     ![c].rev = rev]
                      /\ inflight' = Append(Tail(inflight), c)
                      /\ UNCHANGED selection
            ELSE /\ calls' = [calls EXCEPT ![c].pc = "done", ![c].rev = rev]
                 /\ inflight' = Tail(inflight)
                 /\ selection' = rev
    /\ UNCHANGED <<repoConfigEvent, repoStatusEvent, revisionSelectEvent, loadTimeout,
                   timer, mounted>>
    /\ UNCHANGED gestureVars

\* the first click on a revision
SelectFirst == calls = <<>> /\ Select

\* mount, configuration events and the timer, around one call of loadChange
NextShell ==
    \/ Mount
    \/ ConfigEvent
    \/ TimerFires
    \/ SelectFirst
    \/ Respond

SpecShell == InitShell /\ [][NextShell]_vars

\* a loaded workspace whose working copy stays what it is
InitLoaded ==
    /\ \E c \in CommitIds :
        /\ repoConfigEvent = Workspace(c)
        /\ repoStatusEvent = Status(c)
    /\ revisionSelectEvent = Unset
    /\ selection = Wait
    /\ loadTimeout = "null"
    /\ timer = "cleared"
    /\ mounted = TRUE
    /\ calls = <<>>
    /\ inflight = <<>>
    /\ GestureIdle

NextLoaded ==
    \/ Select
    \/ Respond

SpecLoaded == InitLoaded /\ [][NextLoaded]_vars

(***************************************************************************)
(* One gesture.                                                            *)
(***************************************************************************)
Init ==
    /\ from \in Operands
    /\ to = Null
    /\ alias = [operand |-> FALSE, child |-> FALSE]
    /\ pc = "idle"
    /\ drag = Null
    /\ drop = Null
    /\ requests = <<>>
    /\ log = <<>>
    /\ ShellIdle

\* pointer-down on `from`
DragStart ==
    /\ pc = "idle"
    /\ drag' = CanDrag(from)
    /\ pc' = "dragging"
    /\ UNCHANGED <<from, to, alias, drop, requests, log>>
    /\ UNCHANGED shellVars

\* release over the zone of t: the classification is derived again and the
\* dispatcher runs only for a pair classified yes
Drop(t, a) ==
    /\ pc = "dragging"
    /\ AliasOk(from, t, a)
    /\ to' = t
    /\ alias' = a
    /\ drop' = CanDrop(from, t, a)
    /\ LET out == IF CanDrop(from, t, a).type = "yes"
                  THEN DoDrop(from, t)
                  ELSE [requests |-> <<>>, log |-> <<>>]
       IN /\ requests' = requests \o out.requests
          /\ log' = log \o out.log
    /\ pc' = "done"
    /\ UNCHANGED <<from, drag>>
    /\ UNCHANGED shellVars

\* pointer-up over some zone
Release == pc = "dragging" /\ \E t \in Operands, a \in Aliases : Drop(t, a)

Next ==
    \/ DragStart
    \/ Release

Spec == Init /\ [][Next]_vars

\* release over the repository zone (the pane background)
ReleaseOnRepository ==
    /\ pc = "dragging"
    /\ Drop([type |-> "Repository"], [operand |-> FALSE, child |-> FALSE])

\* the gestures that start on a parent edge of a revision with up to
\* MaxParents + 1 parents and end on the repository
InitEdge ==
    /\ from \in WideEdges
    /\ to = Null
    /\ alias = [operand |-> FALSE, child |-> FALSE]
    /\ pc = "idle"
    /\ drag = Null
    /\ drop = Null
    /\ requests = <<>>
    /\ log = <<>>
    /\ ShellIdle

NextEdge ==
    \/ DragStart
    \/ ReleaseOnRepository

SpecEdge == InitEdge /\ [][NextEdge]_vars

\* new BinaryMutator(from, t).doDrop(), whatever canDrop says of the pair
DoDropCall ==
    /\ pc = "idle"
    /\ \E t \in Operands :
        /\ to' = t
        /\ requests' = requests \o DoDrop(from, t).requests
        /\ log' = log \o DoDrop(from, t).log
    /\ pc' = "called"
    /\ UNCHANGED <<from, alias, drag, drop>>
    /\ UNCHANGED shellVars

NextDispatch == DoDropCall

\* the dispatcher called on every pair of operands
SpecDispatch == Init /\ [][NextDispatch]_vars

(***************************************************************************)
(* Properties.                                                             *)
(***************************************************************************)
Done == pc = "done"

\* from and to denote one entity by value: equal variant and equal identity
\* (header id; header and child id of an edge; path and header id of a change;
\* header id and name of a branch)
SameEntity(f, t) ==
    /\ f.type = t.type
    /\ HasHeader(f) => f.header.id = t.header.id
    /\ f.type = "Parent" => f.child.id = t.child.id
    /\ f.type = "Change" => f.path = t.path
    /\ f.type = "Branch" => f.name = t.name

\* C1: a release issues exactly one request if the pair is classified yes and
\* none if it is classified maybe or no.
C1_OneRequestIffYes ==
    Done => Len(requests) = (IF drop.type = "yes" THEN 1 ELSE 0)

C1_Witness == Done /\ drop.type = "yes" /\ Len(requests) = 1 /\ from.type = "Branch"

\* C2: a pair that denotes one entity by value is classified no, also when the
\* two operands are distinct objects.
C2_SameEntityIsNo ==
    (Done /\ SameEntity(from, to)) => drop.type = "no"

C4_AsStated ==
    (Done /\ from.type = "Change" /\ to.type = "Repository") =>
        (drop.type = "yes" <=> Len(from.header.parent_ids) = 1)

\* C4: a change dropped on the repository is yes iff its header is not
\* immutable and has exactly one parent.
C4_ChangeToRepository ==
    (Done /\ from.type = "Change" /\ to.type = "Repository") =>
        (drop.type = "yes" <=>
            (~from.header.is_immutable /\ Len(from.header.parent_ids) = 1))

C4_Witness ==
    /\ Done /\ from.type = "Change" /\ to.type = "Repository"
    /\ Len(from.header.parent_ids) = 1 /\ from.header.is_immutable /\ drop.type = "no"

\* C5: every copy_changes request comes from a change whose header has exactly
\* one parent, and its from_id is that parent, never undefined.
C5_CopyChangesSingleParent ==
    \A i \in 1..Len(requests) :
        requests[i].command = "copy_changes" =>
            /\ from.type = "Change"
            /\ Len(from.header.parent_ids) = 1
            /\ requests[i].request.from_id = from.header.parent_ids[1]
            /\ requests[i].request.from_id # Undefined

C5_Witness ==
    /\ Done /\ Len(requests) = 1 /\ requests[1].command = "copy_changes"
    /\ from.type = "Change" /\ to.type = "Repository"

\* C6 as stated: a branch dropped on a branch is yes iff the two have the same
\* branch_name and no otherwise. Stated for two distinct branches.
C6_AsStated ==
    (Done /\ from.type = "Branch" /\ to.type = "Branch" /\ ~SameEntity(from, to)) =>
        drop.type = (IF from.name.branch_name = to.name.branch_name THEN "yes" ELSE "no")

\* C6: a branch dropped on a branch is yes iff the dragged branch is local, the
\* two are not one operand object and they have the same branch_name; it is no
\* otherwise, never maybe.
C6_BranchToBranch ==
    (Done /\ from.type = "Branch" /\ to.type = "Branch") =>
        drop.type = (IF /\ from.name.type = "LocalBranch"
                        /\ ~alias.operand
                        /\ from.name.branch_name = to.name.branch_name
                     THEN "yes" ELSE "no")

C6_Witness ==
    /\ Done /\ from.type = "Branch" /\ to.type = "Branch"
    /\ from.name.type = "RemoteBranch" /\ to.name.type = "LocalBranch"
    /\ from.name.branch_name = to.name.branch_name /\ drop.type = "no"

\* C7: a pair whose source is not classified yes for dragging is classified no,
\* except a revision dropped on a merge, which is no if the two have the same
\* change id and otherwise yes with the hint of adding a parent, whether or not
\* the revision is immutable.
C7_GateSparesRevisionToMerge ==
    Done =>
        IF from.type = "Revision" /\ to.type = "Merge"
        THEN drop = (IF to.header.id.change = from.header.id.change
                     THEN [type |-> "no"]
                     ELSE [type |-> "yes",
                           hint |-> <<"Adding parent to revision ", to.header.id.change>>])
        ELSE drag.type # "yes" => drop.type = "no"

C7_Witness ==
    /\ Done /\ from.type = "Revision" /\ to.type = "Merge"
    /\ from.header.is_immutable /\ drag.type = "maybe" /\ drop.type = "yes"

\* the classification C8 refers to: the type and, for maybe, the reason
DragReference(f) ==
    IF f.type \in {"Repository", "Merge"} THEN <<"no">>
    ELSE IF f.type \in {"Revision", "Change"}
    THEN IF f.header.is_immutable THEN <<"maybe", "(revision is immutable)">> ELSE <<"yes">>
    ELSE IF f.type = "Parent"
    THEN IF f.child.is_immutable THEN <<"maybe", "(child is immutable)">>
         ELSE IF Len(f.child.parent_ids) = 1 THEN <<"maybe", "(child has only one parent)">>
         ELSE <<"yes">>
    ELSE IF f.name.type = "RemoteBranch" THEN <<"maybe", "(branch is remote)">> ELSE <<"yes">>

\* C8: the drag classification of every operand is the reference one: maybe for
\* an immutable revision or change, for a parent edge whose child is immutable
\* or else has one parent, and for a remote branch; no for the repository and a
\* merge; yes for everything else.
C8_DragClassification ==
    pc # "idle" =>
        /\ drag.type = DragReference(from)[1]
        /\ drag.type = "maybe" => drag.hint = DragReference(from)[2]

C8_Witness ==
    /\ pc = "dragging" /\ from.type = "Parent" /\ from.child.is_immutable
    /\ Len(from.child.parent_ids) = 1 /\ drag = [type |-> "maybe", hint |-> "(child is immutable)"]

\* the nine cells of the drop table
TableCells ==
    {<<"Revision", "Revision">>, <<"Revision", "Parent">>, <<"Revision", "Merge">>,
     <<"Revision", "Repository">>, <<"Parent", "Repository">>, <<"Change", "Revision">>,
     <<"Change", "Repository">>, <<"Branch", "Revision">>, <<"Branch", "Branch">>}

\* C9: every pair is classified yes, maybe or no, and every pair of variants
\* outside the nine cells of the table is classified no.
C9_TotalAndClosed ==
    Done =>
        /\ drop.type \in {"yes", "maybe", "no"}
        /\ <<from.type, to.type>> \notin TableCells => drop.type = "no"

C9_Witness ==
    /\ Done /\ from.type = "Parent" /\ to.type = "Merge"
    /\ drag.type = "yes" /\ drop.type = "no"

\* C10: a local branch dropped on a remote branch of the same branch_name is
\* yes with the hint "Resetting branch <name> to remote", and the one request
\* issued is move_branch with the name of the dragged branch and the id of the
\* revision the target points at.
C10_ResetToRemote ==
    (/\ Done /\ from.type = "Branch" /\ to.type = "Branch"
     /\ from.name.type = "LocalBranch" /\ to.name.type = "RemoteBranch"
     /\ from.name.branch_name = to.name.branch_name) =>
        /\ drop = [type |-> "yes",
                   hint |-> <<"Resetting branch " \o from.name.branch_name \o " to remote">>]
        /\ requests = <<[command |-> "move_branch",
                         request |-> [to_id |-> to.header.id, name |-> from.name]]>>

C10_Witness ==
    /\ Done /\ from.type = "Branch" /\ to.type = "Branch"
    /\ from.name = [type |-> "LocalBranch", branch_name |-> "main"]
    /\ to.name = [type |-> "RemoteBranch", branch_name |-> "main", remote_name |-> "origin"]
    /\ to.header.id # from.header.id
    /\ Len(requests) = 1

\* the list s with its one occurrence of commit taken out, by position
IsWithout(r, s, commit) ==
    \E i \in 1..Len(s) :
        /\ s[i] = commit
        /\ r = SubSeq(s, 1, i - 1) \o SubSeq(s, i + 1, Len(s))

\* C11: a parent edge of a mutable child with two or more parents, dropped on
\* the repository, is yes and sends exactly one move_source for the child whose
\* parent_ids is the child's list without the edge's commit, the others in
\* their order.
C11_RemoveParent ==
    (/\ Done /\ from.type = "Parent" /\ to.type = "Repository"
     /\ ~from.child.is_immutable /\ Len(from.child.parent_ids) >= 2) =>
        /\ drop.type = "yes"
        /\ Len(requests) = 1
        /\ requests[1].command = "move_source"
        /\ requests[1].request.id = from.child.id
        /\ IsWithout(requests[1].request.parent_ids, from.child.parent_ids,
                     from.header.id.commit)

C11_Witness ==
    /\ Done /\ from.type = "Parent" /\ to.type = "Repository"
    /\ Len(from.child.parent_ids) = 3
    /\ from.header.id.commit = from.child.parent_ids[2]
    /\ Len(requests) = 1
    /\ requests[1].request.parent_ids
         = <<from.child.parent_ids[1], from.child.parent_ids[3]>>

\* C12: a revision dropped on a merge of another change sends exactly one
\* move_source for the merge whose parent_ids is the merge's list, unchanged and
\* in order, with the revision's commit as one more, last element.
C12_ExtendParents ==
    (/\ Done /\ from.type = "Revision" /\ to.type = "Merge"
     /\ from.header.id.change # to.header.id.change) =>
        /\ Len(requests) = 1
        /\ requests[1].command = "move_source"
        /\ requests[1].request.id = to.header.id
        /\ LET sent == requests[1].request.parent_ids
               n == Len(to.header.parent_ids)
           IN /\ Len(sent) = n + 1
              /\ \A i \in 1..n : sent[i] = to.header.parent_ids[i]
              /\ sent[n + 1] = from.header.id.commit

C12_Witness ==
    /\ Done /\ from.type = "Revision" /\ to.type = "Merge"
    /\ Len(to.header.parent_ids) = 2
    /\ from.header.id.commit \notin Elems(to.header.parent_ids)
    /\ Len(requests) = 1
    /\ requests[1].request.parent_ids
         = <<to.header.parent_ids[1], to.header.parent_ids[2], from.header.id.commit>>

\* the rows of the dispatcher
DispatcherRows ==
    {<<"Revision", "Revision">>, <<"Revision", "Parent">>, <<"Revision", "Merge">>,
     <<"Revision", "Repository">>, <<"Parent", "Repository">>, <<"Change", "Revision">>,
     <<"Change", "Repository">>, <<"Branch", "Revision">>, <<"Branch", "Branch">>}

\* C13: a call of doDrop on a pair that matches no row sends nothing and logs
\* the one message "error: unknown validated mutation"; a call on a pair that
\* matches a row logs nothing, so the message never follows a request.
C13_LogOnlyWithoutRow ==
    pc = "called" =>
        IF <<from.type, to.type>> \in DispatcherRows
        THEN Len(requests) = 1 /\ log = <<>>
        ELSE requests = <<>> /\ log = <<"error: unknown validated mutation">>

C13_Witness ==
    /\ pc = "called" /\ from.type = "Parent" /\ to.type = "Revision"
    /\ requests = <<>> /\ Len(log) = 1

\* the commits a request names as parents: move_revision lists ids, move_source
\* lists commits
ParentCommits(r) ==
    IF r.command = "move_revision"
    THEN [i \in 1..Len(r.request.parent_ids) |-> r.request.parent_ids[i].commit]
    ELSE r.request.parent_ids

\* C14: every move_revision or move_source sent for a pair classified yes has a
\* parent list that is not empty, names no commit twice, and does not name the
\* commit of the revision the request re-parents. Stated for the pairs of a
\* repository: a commit belongs to one change, and an operand equal to the
\* dragged one by value is the dragged object.
C14_WellFormedParents ==
    (/\ Done /\ drop.type = "yes"
     /\ (HasHeader(from) /\ HasHeader(to)
         /\ from.header.id.commit = to.header.id.commit)
            => from.header.id = to.header.id
     /\ SameEntity(from, to) => alias.operand) =>
        \A i \in 1..Len(requests) :
            requests[i].command \in {"move_revision", "move_source"} =>
                /\ Len(ParentCommits(requests[i])) > 0
                /\ DupFree(ParentCommits(requests[i]))
                /\ requests[i].request.id.commit \notin Elems(ParentCommits(requests[i]))

\* C15: a step of a loadChange call follows an answer to its query. If the
\* answer is NotFound for an id whose commit is not the working copy, the call
\* queries once more, for the working copy, and this happens only after its
\* first query; on every other answer (NotFound for the working copy too) the
\* call ends and selection is that answer. So no call sends more than two
\* queries, and a call that has not ended has its query pending.
C15_RecoverOnceThenAssign ==
    [][\A c \in 1..Len(calls) :
         calls'[c] # calls[c] =>
            IF /\ IsNotFound(calls'[c].rev)
               /\ calls[c].id.commit # repoStatusEvent.working_copy
            THEN /\ calls[c].queries = 1
                 /\ calls'[c].queries = 2
                 /\ calls'[c].pc = "query"
                 /\ calls'[c].id.commit = repoStatusEvent.working_copy
                 /\ c \in Elems(inflight')
                 /\ selection' = selection
            ELSE /\ calls'[c].pc = "done"
                 /\ calls'[c].queries = calls[c].queries
                 /\ calls'[c].queries <= 2
                 /\ selection' = calls'[c].rev]_vars

C15_Witness ==
    \E c \in 1..Len(calls) :
        /\ calls[c].pc = "done" /\ calls[c].queries = 2
        /\ calls[c].id = WorkingCopyId(repoStatusEvent)
        /\ calls[c].rev = NotFound(calls[c].id) /\ selection = calls[c].rev

\* C16: the timer is started only by onMount finding the configuration still
\* Initial; once mounted with a configuration other than Initial no timer is
\* pending; a cancelled timer stays cancelled; and the configuration becomes
\* TimeoutError only by a pending timer running out.
C16_TimerCancelledByLoadRepo ==
    [][/\ (timer # "pending" /\ timer' = "pending") =>
            (~mounted /\ mounted' /\ repoConfigEvent.type = "Initial")
       /\ (mounted' /\ repoConfigEvent'.type # "Initial") => timer' # "pending"
       /\ timer = "cleared" => timer' = "cleared"
       /\ (repoConfigEvent'.type = "TimeoutError" /\ repoConfigEvent # repoConfigEvent')
            => (timer = "pending" /\ timer' = "fired")]_vars

C16_Witness ==
    /\ mounted /\ timer = "cleared" /\ loadTimeout = "null"
    /\ repoConfigEvent.type = "Workspace"

\* C17: when two or more calls of loadChange have been started and all have
\* ended, selection is the answer the call started last ended with.
C17_LatestCallWins ==
    (/\ Len(calls) >= 2
     /\ \A c \in 1..Len(calls) : calls[c].pc = "done") =>
        selection = calls[Len(calls)].rev

====
